---- MODULE Spec2Model ----
(***************************************************************************)
(* Shield: the classification pipeline (main(stream, protocolFilter) and   *)
(* processTransaction) and the analytics functions over stream.data, as    *)
(* given in README.md.                                                     *)
(*                                                                         *)
(* JavaScript strings are TLA+ strings (Len, SubSeq and \o act on them).   *)
(* The string-valued fields that may be undefined or null hold the         *)
(* sentinels Undefined and Null; an optional object or number is a         *)
(* sequence of length 0 (absent) or 1 (present).  Numbers are integers;    *)
(* a quotient is kept as an exact fraction.  processedAt and lastUpdated   *)
(* are wall-clock stamps that no function reads; they are left out of the  *)
(* normalized record.                                                      *)
(***************************************************************************)
EXTENDS Integers, Sequences, FiniteSets, TLC

VARIABLES
    stream,          \* pipeline: the stream argument of main
    protocolFilter,  \* pipeline: the protocolFilter argument of main
    transactions,    \* pipeline: const transactions
    idx,             \* pipeline: position of the for..of loop over transactions
    filtered,        \* pipeline: const filtered
    pc,              \* pipeline: "start", "loop", "done" or "threw"
    data,            \* analytics: stream.data
    now,             \* analytics: Math.floor(Date.now() / 1000)
    query,           \* analytics: the options of the call of main being made
    result,          \* analytics: what that call returned
    calls            \* analytics: the arguments of the callback invocations that call made

vars == <<stream, protocolFilter, transactions, idx, filtered, pc, data, now, query, result, calls>>
pipelineVars == <<stream, protocolFilter, transactions, idx, filtered, pc>>
queryVars == <<data, now, query, result, calls>>

Undefined == "<undefined>"
Null == "<null>"

\* ------------------------------------------------------------------ bounds

MaxBatch == 2
MaxData == 4

\* ------------------------------------------------------------- JavaScript

Min(a, b) == IF a < b THEN a ELSE b

Abs(n) == IF n < 0 THEN -n ELSE n

\* String.prototype.includes
Includes(s, p) == \E i \in 1..(Len(s) - Len(p) + 1) : SubSeq(s, i, i + Len(p) - 1) = p

\* String.prototype.indexOf(p, from), 1-based; 0 when p does not occur
IndexOf(s, p, from) ==
    LET hits == {i \in from..(Len(s) - Len(p) + 1) : SubSeq(s, i, i + Len(p) - 1) = p}
    IN  IF hits = {} THEN 0 ELSE CHOOSE i \in hits : \A j \in hits : i <= j

\* s.split(sep)[1] for a non-empty sep: <<>> when undefined, else <<piece>>
SplitSecond(s, sep) ==
    LET first == IndexOf(s, sep, 1)
        start == first + Len(sep)
        next  == IndexOf(s, sep, start)
    IN  IF first = 0 THEN <<>>
        ELSE IF next = 0 THEN <<SubSeq(s, start, Len(s))>>
        ELSE <<SubSeq(s, start, next - 1)>>

\* Array.prototype.find: <<>> when undefined, else <<element>>
Find(seq, Test(_)) ==
    LET hits == {i \in 1..Len(seq) : Test(seq[i])}
    IN  IF hits = {} THEN <<>> ELSE <<seq[CHOOSE i \in hits : \A j \in hits : i <= j]>>

\* Array.prototype.map
Map(seq, F(_)) == [i \in 1..Len(seq) |-> F(seq[i])]

\* -------------------------------------------------------------- registry

PROTOCOL_IDS == <<
    [protocol |-> "MARGINFI", subType |-> "MAIN", id |-> "MFv2hWf31Z9kbCa1snEPYctwafyhdvnV7FZnsebVacA"],
    [protocol |-> "JUPITER", subType |-> "SWAPS", id |-> "JUP6LkbZbjS1jKKwapdHNy74zcZ3tLUZoi5QNyVTaV4"],
    [protocol |-> "JUPITER", subType |-> "LIMIT_ORDER", id |-> "jupoNjAxXgZ4rjzxzPMP4oxduvQsQtZzyknqvzYNrNu"],
    [protocol |-> "JUPITER", subType |-> "DCA", id |-> "DCA265Vj8a9CEuX1eb1LWRnDT7uK6q1xMipnNyatn23M"],
    [protocol |-> "OPENBOOK", subType |-> "V2", id |-> "opnb2LAfJYbRMAHHvqjCwQxanZn7ReEHp1k81EohpZb"],
    [protocol |-> "RAYDIUM", subType |-> "OPEN_BOOK", id |-> "675kPX9MHTjS2zt1qfr1NYHuzeLXfQM9H24wFSUt1Mp8"],
    [protocol |-> "RAYDIUM", subType |-> "STABLE_SWAP_AMM", id |-> "5quBtoiQqxF9Jv6KYKctB59NT3gtJD2Y65kdnB1Uev3h"],
    [protocol |-> "RAYDIUM", subType |-> "STAKING", id |-> "EhhTKczWMGQt46ynNeRX1WfeagwwJd7ufHvCDjRxjo5Q"],
    [protocol |-> "RAYDIUM", subType |-> "STANDARD_AMM", id |-> "CPMMoo8L3F4NbTegBCKVNunggL7H1ZpdTHKxQB5qKP1C"],
    [protocol |-> "RAYDIUM", subType |-> "CONCENTRATED_LIQUIDITY", id |-> "CAMMCzo5YL8w4VFF8KVHrK22GGUsp5VTaW7grrKgrWqK"] >>

\* findMatchingProtocol: <<>> when null, else <<[protocol, subType]>>
findMatchingProtocol(programId) ==
    LET hits == {i \in 1..Len(PROTOCOL_IDS) : programId = PROTOCOL_IDS[i].id}
    IN  IF hits = {} THEN <<>>
        ELSE LET first == CHOOSE i \in hits : \A j \in hits : i <= j
             IN  <<[protocol |-> PROTOCOL_IDS[first].protocol,
                    subType |-> PROTOCOL_IDS[first].subType]>>

\* matching && (!protocolFilter || matching.protocol === protocolFilter)
SatisfiesFilter(matching, filter) ==
    /\ matching # <<>>
    /\ (filter \in {Null, ""} \/ matching[1].protocol = filter)


\* ----------------------------------------------------------- normalizer

\* processTransaction throws a TypeError reading tx.rawInstruction.index
\* when the transaction carries no rawInstruction
processTransactionThrows(tx) == tx.rawInstruction = <<>>

\* the pubkey of the account at index 1 in place of index 2
SecondAccountWallet(accounts) ==
    LET second == IF Len(accounts) >= 2 THEN accounts[2].pubkey ELSE Undefined
    IN  IF second \in {Undefined, Null, ""} THEN Null ELSE second

\* const userWallet = tx.accounts[2]?.pubkey || null
UserWalletOf(accounts) ==
    LET third == IF Len(accounts) >= 3 THEN accounts[3].pubkey ELSE Undefined
    IN  IF third \in {Undefined, Null, ""} THEN Null ELSE third

\* the logs filter without its third test
NoiseFreeButConsumed(log) ==
    /\ ~Includes(log, "invoke")
    /\ ~Includes(log, "success")

\* the logs filter of the returned record
NoiseFree(log) ==
    /\ ~Includes(log, "invoke")
    /\ ~Includes(log, "success")
    /\ ~Includes(log, "consumed")

processTransaction(tx) ==
    LET userWallet == UserWalletOf(tx.accounts)
        userAccount == Find(tx.accounts, LAMBDA acc : acc.pubkey = userWallet)
        balanceChange == IF userAccount # <<>>
                         THEN userAccount[1].postBalance - userAccount[1].preBalance
                         ELSE 0
        tokenTransfers == Map(tx.tokenBalanceChanges, LAMBDA token :
                              [mint |-> token.mint,
                               owner |-> token.owner,
                               amount |-> token.uiTokenAmount.uiAmount,
                               decimals |-> token.uiTokenAmount.decimals,
                               rawAmount |-> token.uiTokenAmount.amount])
        accounts == Map(tx.accounts, LAMBDA acc :
                        [address |-> acc.pubkey,
                         balanceChange |-> acc.postBalance - acc.preBalance])
    IN  [transactionId |-> tx.signature,
         blockSlot |-> tx.slot,
         timestamp |-> tx.blockTime,
         success |-> tx.success,
         type |-> tx.type,
         protocol |-> tx.protocol,
         subType |-> tx.subType,
         program |-> tx.programId,
         userWallet |-> userWallet,
         userBalanceChange |-> balanceChange,
         tokenTransfers |-> tokenTransfers,
         accountChanges |-> accounts,
         instruction |-> [index |-> tx.rawInstruction[1].index,
                          data |-> tx.rawInstruction[1].data],
         logs |-> SelectSeq(tx.logs, NoiseFree)]

\* ------------------------------------------------------------- pipeline

\* { ...tx, ...matchingProtocol }
WithMatch(tx, matching) == matching @@ tx

\* tx.logs.filter(log => log.includes(invocation.programId) || log.includes('Instruction:'))
protocolLogs(tx, invocation) ==
    SelectSeq(tx.logs, LAMBDA log :
        Includes(log, invocation.programId) \/ Includes(log, "Instruction:"))

\* protocolLogs.find(log => log.includes('Instruction:'))?.split('Instruction: ')[1] || 'Unknown'
instructionType(logs) ==
    LET found == Find(logs, LAMBDA log : Includes(log, "Instruction:"))
        piece == IF found = <<>> THEN <<>> ELSE SplitSecond(found[1], "Instruction: ")
    IN  IF piece = <<>> \/ piece[1] = "" THEN "Unknown" ELSE piece[1]

\* the filteredTx object built for a matching invocation
filteredTx(tx, invocation, matchingInvocation) ==
    [signature |-> tx.signature,
     slot |-> tx.slot,
     blockTime |-> tx.blockTime,
     type |-> instructionType(protocolLogs(tx, invocation)),
     protocol |-> matchingInvocation.protocol,
     subType |-> matchingInvocation.subType,
     programId |-> invocation.programId,
     accounts |-> invocation.instruction.accounts,
     tokenBalanceChanges |-> IF invocation.instruction.tokenBalances = <<>>
                             THEN <<>>
                             ELSE invocation.instruction.tokenBalances[1],
     success |-> tx.success,
     logs |-> protocolLogs(tx, invocation),
     rawInstruction |-> <<invocation.instruction>>]

\* the invocations the inner loop runs over: none when tx.programInvocations is absent
InvocationsOf(tx) == IF tx.programInvocations = <<>> THEN <<>> ELSE tx.programInvocations[1]

\* the inner loop without its break: the last matching invocation wins
LastMatchingInvocation(tx, filter) ==
    LET invs == InvocationsOf(tx)
        hits == {k \in 1..Len(invs) :
                    SatisfiesFilter(findMatchingProtocol(invs[k].programId), filter)}
    IN  IF hits = {} THEN 0 ELSE CHOOSE k \in hits : \A j \in hits : k >= j

\* position of the invocation at which the inner loop breaks, 0 when it runs to the end
FirstMatchingInvocation(tx, filter) ==
    LET invs == InvocationsOf(tx)
        hits == {k \in 1..Len(invs) :
                    SatisfiesFilter(findMatchingProtocol(invs[k].programId), filter)}
    IN  IF hits = {} THEN 0 ELSE CHOOSE k \in hits : \A j \in hits : k <= j

\* the first test of the loop body
TopLevelKept(tx, filter) == SatisfiesFilter(findMatchingProtocol(tx.programId), filter)

\* the first inner array alone in place of the concatenation of all
FirstArray(arrays) == IF arrays = <<>> THEN <<>> ELSE Head(arrays)

RECURSIVE Flat(_)
\* Array.prototype.flat() on an array of arrays
Flat(arrays) == IF arrays = <<>> THEN <<>> ELSE Head(arrays) \o Flat(Tail(arrays))

\* JSON.parse of a text that encodes a value
JSONparse(text) == text.json

\* lines 239-245: parse, flatten, wrap
InputTransactions(s) ==
    LET parsed == IF s.kind = "text" THEN JSONparse(s) ELSE s
    IN  CASE parsed.kind = "nested" -> Flat(parsed.arrays)
          [] parsed.kind = "array" -> parsed.items
          [] parsed.kind = "object" -> <<parsed.tx>>

MainStart ==
    /\ pc = "start"
    /\ transactions' = InputTransactions(stream)
    /\ filtered' = <<>>
    /\ idx' = 1
    /\ pc' = "loop"
    /\ UNCHANGED <<stream, protocolFilter, queryVars>>

\* the top-level branch: push and continue
MainTopLevel ==
    /\ pc = "loop"
    /\ idx <= Len(transactions)
    /\ LET tx == transactions[idx]
           merged == WithMatch(tx, findMatchingProtocol(tx.programId)[1])
       IN  /\ TopLevelKept(tx, protocolFilter)
           /\ ~processTransactionThrows(merged)
           /\ filtered' = Append(filtered, processTransaction(merged))
    /\ idx' = idx + 1
    /\ UNCHANGED <<stream, protocolFilter, transactions, pc, queryVars>>

\* the top-level branch when processTransaction throws: main ends with the TypeError
MainTopLevelThrows ==
    /\ pc = "loop"
    /\ idx <= Len(transactions)
    /\ LET tx == transactions[idx]
           merged == WithMatch(tx, findMatchingProtocol(tx.programId)[1])
       IN  /\ TopLevelKept(tx, protocolFilter)
           /\ processTransactionThrows(merged)
    /\ pc' = "threw"
    /\ UNCHANGED <<stream, protocolFilter, transactions, idx, filtered, queryVars>>

\* the invocation branch: the first matching invocation is pushed, then break
MainInvocation ==
    /\ pc = "loop"
    /\ idx <= Len(transactions)
    /\ LET tx == transactions[idx]
           k == FirstMatchingInvocation(tx, protocolFilter)
       IN  /\ ~TopLevelKept(tx, protocolFilter)
           /\ k # 0
           /\ LET invocation == InvocationsOf(tx)[k]
                  matchingInvocation == findMatchingProtocol(invocation.programId)[1]
              IN  filtered' = Append(filtered,
                      processTransaction(filteredTx(tx, invocation, matchingInvocation)))
    /\ idx' = idx + 1
    /\ UNCHANGED <<stream, protocolFilter, transactions, pc, queryVars>>

\* neither branch pushes: the transaction is skipped
MainDrop ==
    /\ pc = "loop"
    /\ idx <= Len(transactions)
    /\ LET tx == transactions[idx]
       IN  /\ ~TopLevelKept(tx, protocolFilter)
           /\ FirstMatchingInvocation(tx, protocolFilter) = 0
    /\ idx' = idx + 1
    /\ UNCHANGED <<stream, protocolFilter, transactions, filtered, pc, queryVars>>

\* return filtered
MainReturn ==
    /\ pc = "loop"
    /\ idx > Len(transactions)
    /\ pc' = "done"
    /\ UNCHANGED <<stream, protocolFilter, transactions, idx, filtered, queryVars>>

\* ------------------------------------------------- pipeline: the inputs

JUPITER_SWAPS == PROTOCOL_IDS[2].id
JUPITER_LIMIT_ORDER == PROTOCOL_IDS[3].id
JUPITER_DCA == PROTOCOL_IDS[4].id
MARGINFI_MAIN == PROTOCOL_IDS[1].id
RAYDIUM_OPEN_BOOK == PROTOCOL_IDS[6].id
RAYDIUM_STAKING == PROTOCOL_IDS[8].id
OtherProgram == "ComputeBudget111111111111111111111111111111"

Account(pubkey, pre, post) == [pubkey |-> pubkey, preBalance |-> pre, postBalance |-> post]

TokenBalance(mint, owner, ui) ==
    [mint |-> mint, owner |-> owner,
     uiTokenAmount |-> [uiAmount |-> ui, decimals |-> 9, amount |-> ToString(ui) \o "000000000"]]

ThreeAccounts == <<Account("prog", 1, 1), Account("pool", 5, 9), Account("w1", 10, 7)>>
TwoAccounts == <<Account("prog", 1, 1), Account("pool", 5, 9)>>
\* one account listed twice: both entries carry its one pair of balances
RepeatedAccount == <<Account("w2", 8, 3), Account("pool", 5, 9), Account("w2", 8, 3)>>

Instruction(accounts, tokenBalances, index) ==
    [accounts |-> accounts, tokenBalances |-> tokenBalances, index |-> index, data |-> "3Bxs4h"]

Invocation(programId, instruction) == [programId |-> programId, instruction |-> instruction]

LogsOf(programId, name) ==
    << "Program " \o programId \o " invoke [1]",
       "Program log: Instruction: " \o name,
       "Program " \o programId \o " consumed 5 of 9 compute units",
       "Program " \o programId \o " success" >>

RawTx(programId, success, blockTime, type, accounts, balances, logs, rawInstruction, invocations) ==
    [programId |-> programId, signature |-> "", slot |-> blockTime + 7, blockTime |-> blockTime,
     success |-> success, type |-> type, accounts |-> accounts, tokenBalanceChanges |-> balances,
     logs |-> logs, rawInstruction |-> rawInstruction, programInvocations |-> invocations]

\* the flat shape of the classification scenario: no rawInstruction, no type, no invocations
FlatJupiter ==
    RawTx(JUPITER_SWAPS, TRUE, 1000, Undefined, ThreeAccounts,
          <<TokenBalance("So111", "w1", 5)>>, <<"Program log: Instruction: Swap">>, <<>>, <<>>)

\* a top-level match that carries rawInstruction and type
FullJupiter ==
    RawTx(JUPITER_SWAPS, FALSE, 1001, "Route", RepeatedAccount,
          <<TokenBalance("So111", "w2", 2), TokenBalance("USDC", "w3", -4)>>,
          LogsOf(JUPITER_SWAPS, "Route") \o <<"Program log: done">>,
          <<[index |-> 4, data |-> "6SAF3B"]>>, <<<<>>>>)

\* no registry program anywhere
Unmatched ==
    RawTx(OtherProgram, TRUE, 1002, Undefined, TwoAccounts, <<>>,
          LogsOf(OtherProgram, "SetLimit"), <<>>,
          << <<Invocation(OtherProgram, Instruction(TwoAccounts, <<>>, 0))>> >>)

\* nested shape: an unknown program wraps one unmatched and two matching invocations
NestedTwoMatches ==
    RawTx(OtherProgram, TRUE, 1003, Undefined, TwoAccounts, <<>>,
          LogsOf(OtherProgram, "SetLimit") \o LogsOf(JUPITER_DCA, "OpenDca")
              \o <<"Program log: Instruction:">> \o LogsOf(RAYDIUM_STAKING, "Deposit"),
          <<>>,
          << <<Invocation(OtherProgram, Instruction(TwoAccounts, <<>>, 0)),
               Invocation(JUPITER_DCA,
                   Instruction(ThreeAccounts, <<<<TokenBalance("USDC", "w1", -3)>>>>, 1)),
               Invocation(RAYDIUM_STAKING, Instruction(RepeatedAccount, <<>>, 2))>> >>)

\* a registry program at top level wrapping an invocation of another protocol
RaydiumOverJupiter ==
    RawTx(RAYDIUM_OPEN_BOOK, TRUE, 1004, "Swap", ThreeAccounts, <<>>,
          <<"Program log: Instruction: ", "Program " \o JUPITER_LIMIT_ORDER \o " log: fill">>,
          <<[index |-> 2, data |-> "9fQ1"]>>,
          << <<Invocation(JUPITER_LIMIT_ORDER,
                   Instruction(TwoAccounts, <<<<TokenBalance("So111", "w3", 1)>>>>, 0))>> >>)

\* a registry program at top level, flat, with an empty invocation list
FlatRaydium ==
    RawTx(RAYDIUM_OPEN_BOOK, FALSE, 1005, Undefined, ThreeAccounts, <<>>,
          LogsOf(RAYDIUM_OPEN_BOOK, "Swap"), <<>>, <<<<>>>>)

\* an invocation match whose logs name no instruction
NestedMarginfi ==
    RawTx(OtherProgram, FALSE, 1006, Undefined, ThreeAccounts, <<>>,
          <<"Program " \o MARGINFI_MAIN \o " invoke [2]", "Program " \o MARGINFI_MAIN \o " log: borrow">>,
          <<>>,
          << <<Invocation(MARGINFI_MAIN, Instruction(TwoAccounts, <<>>, 3))>> >>)

RawPool == {FlatJupiter, FullJupiter, Unmatched, NestedTwoMatches, RaydiumOverJupiter,
            FlatRaydium, NestedMarginfi}

ProtocolFilters == {Null, "JUPITER", "RAYDIUM"}

\* the signatures of a batch are distinct: the one at position i is "sig<i>"
Signed(batch) == [i \in 1..Len(batch) |-> [batch[i] EXCEPT !.signature = "sig" \o ToString(i)]]

Batches == UNION {{Signed(b) : b \in [1..n -> RawPool]} : n \in 0..MaxBatch}

\* the shapes main accepts: an array, an array of arrays, a single object, and the text of each
Shapes(batch) ==
    LET parsed == {[kind |-> "array", items |-> batch]}
                  \cup {[kind |-> "nested",
                         arrays |-> <<SubSeq(batch, 1, k), SubSeq(batch, k + 1, Len(batch))>>] :
                            k \in 0..Len(batch)}
                  \cup (IF Len(batch) = 1 THEN {[kind |-> "object", tx |-> batch[1]]} ELSE {})
    IN  parsed \cup {[kind |-> "text", json |-> v] : v \in parsed}

NoStream == [kind |-> "array", items |-> <<>>]
NoQuery == [type |-> "none"]

Init ==
    /\ \E batch \in Batches : stream \in Shapes(batch)
    /\ protocolFilter \in ProtocolFilters
    /\ transactions = <<>>
    /\ idx = 0
    /\ filtered = <<>>
    /\ pc = "start"
    /\ data = <<>>
    /\ now = 0
    /\ query = NoQuery
    /\ result = <<>>
    /\ calls = <<>>

Next ==
    \/ MainStart
    \/ MainTopLevel
    \/ MainTopLevelThrows
    \/ MainInvocation
    \/ MainDrop
    \/ MainReturn

Spec == Init /\ [][Next]_vars

\* ------------------------------------------------ pipeline: the claims

\* the protocols the registry lists for a program id
RegistryProtocols(programId) ==
    {PROTOCOL_IDS[i].protocol : i \in {j \in 1..Len(PROTOCOL_IDS) : PROTOCOL_IDS[j].id = programId}}

\* a program id matches a registry entry whose protocol satisfies the filter
Accepted(programId, filter) ==
    \E p \in RegistryProtocols(programId) : filter = Null \/ p = filter

\* the positions of the invocations of tx that are accepted
AcceptedInvocations(tx, filter) ==
    {k \in 1..Len(InvocationsOf(tx)) : Accepted(InvocationsOf(tx)[k].programId, filter)}

\* the positions of the records of filtered made from the transaction at position i
RecordsOf(i) == {a \in 1..Len(filtered) : filtered[a].transactionId = transactions[i].signature}

\* the position in transactions of the transaction a record was made from
SourceOf(record) == CHOOSE i \in 1..Len(transactions) : transactions[i].signature = record.transactionId

MainEnded == pc \in {"done", "threw"}

\* C1: main returns, and its output holds a record of a raw transaction if and
\* only if the transaction's top-level programId, or the programId of one of
\* its programInvocations, matches a registry entry whose protocol satisfies
\* the filter; every other transaction is dropped without an error.
C1_KeptIffMatched ==
    MainEnded =>
        /\ pc = "done"
        /\ \A i \in 1..Len(transactions) :
              (RecordsOf(i) # {}) <=>
                  \/ Accepted(transactions[i].programId, protocolFilter)
                  \/ AcceptedInvocations(transactions[i], protocolFilter) # {}

\* C2: a record made from a transaction that is not kept through its top-level
\* programId carries the protocol, subType and program of the accepted
\* invocation of lowest index; every transaction has at most one record, the
\* records are in input order, and once main returns every such transaction
\* with an accepted invocation has its record.
C2_FirstInvocationWins ==
    /\ \A a \in 1..Len(filtered) : \A b \in 1..Len(filtered) :
          a < b => SourceOf(filtered[a]) < SourceOf(filtered[b])
    /\ \A a \in 1..Len(filtered) :
          LET tx == transactions[SourceOf(filtered[a])]
              accepted == AcceptedInvocations(tx, protocolFilter)
          IN  ~Accepted(tx.programId, protocolFilter) =>
                 /\ accepted # {}
                 /\ LET k == CHOOSE k \in accepted : \A j \in accepted : k <= j
                        entry == CHOOSE e \in {PROTOCOL_IDS[i] : i \in 1..Len(PROTOCOL_IDS)} :
                                     e.id = InvocationsOf(tx)[k].programId
                    IN  /\ filtered[a].program = entry.id
                        /\ filtered[a].protocol = entry.protocol
                        /\ filtered[a].subType = entry.subType
    /\ pc = "done" =>
          \A i \in 1..Len(transactions) :
              (/\ ~Accepted(transactions[i].programId, protocolFilter)
               /\ AcceptedInvocations(transactions[i], protocolFilter) # {})
                  => Cardinality(RecordsOf(i)) = 1

\* main returned two records, the second made from a transaction that is not
\* kept at top level and has two accepted invocations
C2_Witness ==
    /\ pc = "done"
    /\ Len(filtered) = 2
    /\ LET tx == transactions[2]
       IN  /\ ~Accepted(tx.programId, protocolFilter)
           /\ Cardinality(AcceptedInvocations(tx, protocolFilter)) = 2
           /\ filtered[2].transactionId = tx.signature
           /\ filtered[2].program = JUPITER_DCA

\* the flat shape: no rawInstruction, no type, no programInvocations
IsFlatJupiterSwap(tx) ==
    /\ tx.programId = JUPITER_SWAPS
    /\ tx.rawInstruction = <<>>
    /\ tx.programInvocations = <<>>
    /\ tx.type = Undefined

\* C3: classifying a single flat-shape JUPITER/SWAPS transaction with no filter
\* completes without raising and yields exactly one record, with
\* protocol JUPITER, subType SWAPS and the type named by the 'Instruction:' log line.
C3_FlatJupiterClassified ==
    (/\ MainEnded
     /\ protocolFilter = Null
     /\ Len(transactions) = 1
     /\ IsFlatJupiterSwap(transactions[1]))
        => /\ pc = "done"
           /\ Len(filtered) = 1
           /\ filtered[1].protocol = "JUPITER"
           /\ filtered[1].subType = "SWAPS"
           /\ filtered[1].type = instructionType(transactions[1].logs)

\* the transactions a stream value holds, in order, whatever its shape
Supplied(v) ==
    LET of(w) == CASE w.kind = "array" -> w.items
                   [] w.kind = "nested" -> w.arrays[1] \o w.arrays[2]
                   [] w.kind = "object" -> <<w.tx>>
    IN  IF v.kind = "text" THEN of(v.json) ELSE of(v)

\* what the loop of main makes of one more transaction
Classified(sofar, tx, filter) ==
    IF sofar.threw THEN sofar
    ELSE IF TopLevelKept(tx, filter)
         THEN LET merged == WithMatch(tx, findMatchingProtocol(tx.programId)[1])
              IN  IF processTransactionThrows(merged) THEN [sofar EXCEPT !.threw = TRUE]
                  ELSE [sofar EXCEPT !.records = Append(@, processTransaction(merged))]
         ELSE LET k == FirstMatchingInvocation(tx, filter)
              IN  IF k = 0 THEN sofar
                  ELSE LET invocation == InvocationsOf(tx)[k]
                           matching == findMatchingProtocol(invocation.programId)[1]
                       IN  [sofar EXCEPT !.records =
                               Append(@, processTransaction(filteredTx(tx, invocation, matching)))]

\* the outcome of main for the transactions of batch, a function of them and the filter alone
OutcomeOf(batch, filter) ==
    LET after[n \in 0..Len(batch)] ==
            IF n = 0 THEN [threw |-> FALSE, records |-> <<>>]
            ELSE Classified(after[n - 1], batch[n], filter)
    IN  after[Len(batch)]

\* C15: whatever the shape of the input (text, array, array of arrays, single object), the
\* transactions main loops over are the transactions supplied, in order, and the outcome of
\* main (the normalized records it returns, or its throwing) is the outcome for those
\* transactions and the filter: the same transactions in another shape give the same output
C15_ShapesAlike ==
    /\ pc \in {"loop", "done", "threw"} => transactions = Supplied(stream)
    /\ pc = "done" => /\ ~OutcomeOf(Supplied(stream), protocolFilter).threw
                      /\ filtered = OutcomeOf(Supplied(stream), protocolFilter).records
    /\ pc = "threw" => OutcomeOf(Supplied(stream), protocolFilter).threw

\* main has returned records for a text that encodes an array of two non-empty arrays
C15_Witness ==
    /\ pc = "done"
    /\ stream.kind = "text"
    /\ stream.json.kind = "nested"
    /\ Len(stream.json.arrays[1]) >= 1
    /\ Len(stream.json.arrays[2]) >= 1
    /\ Len(filtered) >= 2

\* the account list the record at position a of filtered was normalized from: the
\* transaction's own when it is kept at top level, else that of its first accepted invocation
AccountsUsed(a) ==
    LET tx == transactions[SourceOf(filtered[a])]
        accepted == AcceptedInvocations(tx, protocolFilter)
    IN  IF Accepted(tx.programId, protocolFilter) THEN tx.accounts
        ELSE InvocationsOf(tx)[CHOOSE k \in accepted : \A j \in accepted : k <= j].instruction.accounts

\* C18: in every normalized record userWallet is the pubkey of the account at index 2 of the
\* account list used, null when the list has fewer than three accounts; userBalanceChange is
\* postBalance - preBalance of the account of that pubkey, 0 when userWallet is null;
\* accountChanges has one entry per account, in order, with its pubkey as address and
\* postBalance - preBalance as balanceChange
C18_WalletAndBalances ==
    \A a \in 1..Len(filtered) :
        LET used == AccountsUsed(a)
            record == filtered[a]
        IN  /\ record.userWallet = IF Len(used) >= 3 THEN used[3].pubkey ELSE Null
            /\ record.userWallet = Null => record.userBalanceChange = 0
            /\ record.userWallet # Null =>
                   \A i \in 1..Len(used) :
                       used[i].pubkey = record.userWallet =>
                           record.userBalanceChange = used[i].postBalance - used[i].preBalance
            /\ Len(record.accountChanges) = Len(used)
            /\ \A i \in 1..Len(used) :
                   /\ record.accountChanges[i].address = used[i].pubkey
                   /\ record.accountChanges[i].balanceChange
                          = used[i].postBalance - used[i].preBalance

\* main has made a record from a list of two accounts, with no userWallet, and a record from
\* a list of three whose third account lost balance
C18_Witness ==
    /\ Len(filtered) = 2
    /\ \E a, b \in 1..2 :
          /\ Len(AccountsUsed(a)) = 2
          /\ filtered[a].userWallet = Null
          /\ filtered[a].userBalanceChange = 0
          /\ Len(AccountsUsed(b)) = 3
          /\ filtered[b].userWallet = AccountsUsed(b)[3].pubkey
          /\ filtered[b].userBalanceChange < 0

RECURSIVE IsSubsequence(_, _)
\* the members of s occur in t, in the order they have in s
IsSubsequence(s, t) ==
    IF s = <<>> THEN TRUE
    ELSE IF t = <<>> THEN FALSE
    ELSE IF Head(s) = Head(t) THEN IsSubsequence(Tail(s), Tail(t))
    ELSE IsSubsequence(s, Tail(t))

\* C19: no line of the logs of a normalized record contains "invoke", "success" or
\* "consumed"; the lines kept are lines of the raw transaction's logs in their original
\* relative order; each line of a record made from an invocation match contains the matched
\* invocation's program id or the text "Instruction:"
C19_LogsFiltered ==
    \A a \in 1..Len(filtered) :
        LET record == filtered[a]
            tx == transactions[SourceOf(record)]
        IN  /\ \A n \in 1..Len(record.logs) :
                   /\ ~Includes(record.logs[n], "invoke")
                   /\ ~Includes(record.logs[n], "success")
                   /\ ~Includes(record.logs[n], "consumed")
            /\ IsSubsequence(record.logs, tx.logs)
            /\ ~Accepted(tx.programId, protocolFilter) =>
                   \A n \in 1..Len(record.logs) :
                       \/ Includes(record.logs[n], record.program)
                       \/ Includes(record.logs[n], "Instruction:")

\* a record made from an invocation match kept two lines or more of a transaction that has
\* a "consumed" line, and a record made at top level kept a line that names neither its
\* program nor an instruction
C19_Witness ==
    \E a, b \in 1..Len(filtered) :
        LET ta == transactions[SourceOf(filtered[a])]
            tb == transactions[SourceOf(filtered[b])]
        IN  /\ ~Accepted(ta.programId, protocolFilter)
            /\ Len(filtered[a].logs) >= 2
            /\ Len(filtered[a].logs) < Len(ta.logs)
            /\ \E n \in 1..Len(ta.logs) : Includes(ta.logs[n], "consumed")
            /\ Accepted(tb.programId, protocolFilter)
            /\ \E n \in 1..Len(filtered[b].logs) :
                   /\ ~Includes(filtered[b].logs[n], filtered[b].program)
                   /\ ~Includes(filtered[b].logs[n], "Instruction:")

\* ============================================================ analytics

\* Array.prototype.reduce with an initial value (also forEach over an accumulator)
Reduce(F(_, _), seq, initial) ==
    LET f[i \in 0..Len(seq)] == IF i = 0 THEN initial ELSE F(f[i - 1], seq[i])
    IN  f[Len(seq)]

\* the empty object {}
EmptyObject == <<>>

\* obj[key] = value
Put(obj, key, value) == [k \in DOMAIN obj \cup {key} |-> IF k = key THEN value ELSE obj[k]]

\* obj[key] || 0
GetOrZero(obj, key) == IF key \in DOMAIN obj THEN obj[key] ELSE 0

\* [...new Set(seq)]: the distinct values in order of first insertion
Unique(seq) ==
    Reduce(LAMBDA acc, x : IF \E i \in 1..Len(acc) : acc[i] = x THEN acc ELSE Append(acc, x),
           seq, <<>>)

\* Array.prototype.slice(0, end)
Slice(seq, end) ==
    LET n == Len(seq)
        to == IF end < 0 THEN (IF n + end < 0 THEN 0 ELSE n + end) ELSE Min(end, n)
    IN  SubSeq(seq, 1, to)

RECURSIVE GCD(_, _)
GCD(a, b) == IF b = 0 THEN a ELSE GCD(b, a % b)

\* the quotient n / d of two non-negative numbers, d > 0, as a fraction in lowest terms
Quotient(n, d) == LET g == GCD(n, d) IN [num |-> n \div g, den |-> d \div g]

\* the number 0 where a quotient may stand
Zero == [num |-> 0, den |-> 1]

\* the lower-case form of one character
LowerChar(c) ==
    CASE c = "A" -> "a" [] c = "B" -> "b" [] c = "C" -> "c" [] c = "D" -> "d" [] c = "E" -> "e"
      [] c = "F" -> "f" [] c = "G" -> "g" [] c = "H" -> "h" [] c = "I" -> "i" [] c = "J" -> "j"
      [] c = "K" -> "k" [] c = "L" -> "l" [] c = "M" -> "m" [] c = "N" -> "n" [] c = "O" -> "o"
      [] c = "P" -> "p" [] c = "Q" -> "q" [] c = "R" -> "r" [] c = "S" -> "s" [] c = "T" -> "t"
      [] c = "U" -> "u" [] c = "V" -> "v" [] c = "W" -> "w" [] c = "X" -> "x" [] c = "Y" -> "y"
      [] c = "Z" -> "z" [] OTHER -> c

\* String.prototype.toLowerCase
toLowerCase(s) ==
    LET f[i \in 0..Len(s)] == IF i = 0 THEN "" ELSE f[i - 1] \o LowerChar(SubSeq(s, i, i))
    IN  f[Len(s)]

\* limit ? transactions.slice(0, limit) : transactions
Limited(txs, limit) ==
    IF limit # <<>> /\ limit[1] # 0 THEN Slice(txs, limit[1]) ELSE txs

getAllTransactions(s, limit) ==
    LET txs == s.data
    IN  Limited(txs, limit)

\* the comparison without the two toLowerCase calls
SameProtocolExact(tx, protocol) == tx.protocol = protocol

\* tx.protocol?.toLowerCase() === protocol.toLowerCase()
SameProtocolLowered(tx, protocol) ==
    /\ tx.protocol \notin {Undefined, Null}
    /\ toLowerCase(tx.protocol) = toLowerCase(protocol)

getTransactionsByProtocol(s, protocol, limit) ==
    LET txs == SelectSeq(s.data, LAMBDA tx : SameProtocolLowered(tx, protocol))
    IN  Limited(txs, limit)

\* the filter of getProtocolVolume without its success test
InVolumeWindowAnyOutcome(tx, protocol, startTime) ==
    tx.protocol = protocol /\ tx.timestamp >= startTime

\* the filter of getProtocolVolume
InVolumeWindow(tx, protocol, startTime) ==
    tx.protocol = protocol /\ tx.timestamp >= startTime /\ tx.success

\* acc[key] = (acc[key] || 0) + Math.abs(transfer.amount), for every transfer of tx
AddTransfers(acc, tx) ==
    Reduce(LAMBDA a, transfer : Put(a, transfer.mint, GetOrZero(a, transfer.mint) + Abs(transfer.amount)),
           tx.tokenTransfers, acc)

getProtocolVolume(s, protocol, timeframe, clock) ==
    LET startTime == clock - timeframe
        txs == SelectSeq(s.data, LAMBDA tx : InVolumeWindow(tx, protocol, startTime))
        volumeByToken == Reduce(AddTransfers, txs, EmptyObject)
    IN  [protocol |-> protocol,
         timeframe |-> timeframe,
         volumeByToken |-> volumeByToken,
         transactionCount |-> Len(txs)]

\* the filter of getActiveWallets without its success test
IsActiveAnyOutcome(tx, protocol) == tx.protocol = protocol

\* the filter of getActiveWallets
IsActive(tx, protocol) == tx.protocol = protocol /\ tx.success

getActiveWallets(s, protocol) ==
    Unique(Map(SelectSeq(s.data, LAMBDA tx : IsActive(tx, protocol)), LAMBDA tx : tx.userWallet))

\* sum of Math.abs(transfer.amount) over the transfers of tx
TransferVolume(tx) ==
    Reduce(LAMBDA sum, transfer : sum + Abs(transfer.amount), tx.tokenTransfers, 0)

\* if (!tx.protocol) return
HasProtocol(tx) == tx.protocol \notin {Undefined, Null, ""}

\* the body of the forEach of getMultiProtocolStats
CountTransaction(stats, tx) ==
    IF ~HasProtocol(tx) THEN stats
    ELSE LET old == IF tx.protocol \in DOMAIN stats THEN stats[tx.protocol]
                    ELSE [transactionCount |-> 0, successRate |-> Zero, uniqueUsers |-> <<>>,
                          totalVolume |-> 0, failedTxs |-> 0]
         IN  Put(stats, tx.protocol,
                 [transactionCount |-> old.transactionCount + 1,
                  successRate |-> old.successRate,
                  uniqueUsers |-> Unique(Append(old.uniqueUsers, tx.userWallet)),
                  totalVolume |-> old.totalVolume + TransferVolume(tx),
                  failedTxs |-> IF ~tx.success THEN old.failedTxs + 1 ELSE old.failedTxs])

\* the share of the failed transactions instead of the successful ones
FailureRate(transactionCount, failedTxs) == Quotient(failedTxs * 100, transactionCount)

\* ((transactionCount - failedTxs) / transactionCount) * 100
SuccessRate(transactionCount, failedTxs) ==
    Quotient((transactionCount - failedTxs) * 100, transactionCount)

getMultiProtocolStats(s) ==
    LET stats == Reduce(CountTransaction, s.data, EmptyObject)
    IN  [protocol \in DOMAIN stats |->
            [stats[protocol] EXCEPT
                !.successRate = SuccessRate(stats[protocol].transactionCount, stats[protocol].failedTxs)]]

\* the filter of searchTransactionsByWallet without the token-transfer owners
InvolvesWalletNoOwners(tx, walletAddress) ==
    \/ tx.userWallet = walletAddress
    \/ \E i \in 1..Len(tx.accountChanges) : tx.accountChanges[i].address = walletAddress

\* the filter of searchTransactionsByWallet
InvolvesWallet(tx, walletAddress) ==
    \/ tx.userWallet = walletAddress
    \/ \E i \in 1..Len(tx.tokenTransfers) : tx.tokenTransfers[i].owner = walletAddress
    \/ \E i \in 1..Len(tx.accountChanges) : tx.accountChanges[i].address = walletAddress

\* insertion of tx into a list sorted by (a, b) => b.timestamp - a.timestamp, after its equals
InsertByTimestamp(sorted, tx) ==
    LET before == {i \in 1..Len(sorted) : sorted[i].timestamp >= tx.timestamp}
        k == Cardinality(before)
    IN  SubSeq(sorted, 1, k) \o <<tx>> \o SubSeq(sorted, k + 1, Len(sorted))

\* the list left in filter order
Unsorted(txs) == txs

\* transactions.sort((a, b) => b.timestamp - a.timestamp): a stable sort, newest first
SortNewestFirst(txs) == Reduce(InsertByTimestamp, txs, <<>>)

\* the reducer of tokenInteractions, for one transfer of a transaction at time timestamp
AddInteraction(acc, transfer, timestamp) ==
    LET old == IF transfer.mint \in DOMAIN acc THEN acc[transfer.mint]
               ELSE [totalVolume |-> 0, transactionCount |-> 0, lastInteraction |-> 0]
    IN  Put(acc, transfer.mint,
            [totalVolume |-> old.totalVolume + Abs(transfer.amount),
             transactionCount |-> old.transactionCount + 1,
             lastInteraction |-> IF old.lastInteraction > timestamp
                                 THEN old.lastInteraction ELSE timestamp])

\* the share of the failed transactions, or 0 for no transaction
FailureShare(txs) ==
    IF Len(txs) # 0
    THEN Quotient(Len(SelectSeq(txs, LAMBDA tx : ~tx.success)) * 100, Len(txs))
    ELSE Zero

\* length ? (filter((tx) => tx.success).length / length) * 100 : 0
SuccessShare(txs) ==
    IF Len(txs) # 0
    THEN Quotient(Len(SelectSeq(txs, LAMBDA tx : tx.success)) * 100, Len(txs))
    ELSE Zero

searchTransactionsByWallet(s, walletAddress) ==
    LET txs == SelectSeq(s.data, LAMBDA tx : InvolvesWallet(tx, walletAddress))
    IN  [walletAddress |-> walletAddress,
         transactionCount |-> Len(txs),
         successRate |-> SuccessShare(txs),
         protocols |-> Unique(Map(txs, LAMBDA tx : tx.protocol)),
         tokenInteractions |->
             Reduce(LAMBDA acc, tx :
                        Reduce(LAMBDA a, transfer : AddInteraction(a, transfer, tx.timestamp),
                               tx.tokenTransfers, acc),
                    txs, EmptyObject),
         transactions |-> SortNewestFirst(txs)]

\* a finite number n where an infinite one may stand
Finite(n) == [num |-> n, den |-> 1]

\* the value -Infinity
NegativeInfinity == [num |-> -1, den |-> 0]

\* the value Infinity
PositiveInfinity == [num |-> 1, den |-> 0]

\* Math.max(...seq): -Infinity for no argument
MathMax(seq) ==
    IF Len(seq) = 0 THEN NegativeInfinity
    ELSE Finite(Reduce(LAMBDA best, x : IF x > best THEN x ELSE best, seq, seq[1]))

\* Math.min(...seq): Infinity for no argument
MathMin(seq) ==
    IF Len(seq) = 0 THEN PositiveInfinity
    ELSE Finite(Reduce(LAMBDA best, x : IF x < best THEN x ELSE best, seq, seq[1]))

\* the filter of getTokenTransferStats
HasCountedTransfers(tx, protocol) ==
    tx.protocol = protocol /\ tx.success /\ Len(tx.tokenTransfers) > 0

\* the body of the forEach over the transfers in getTokenTransferStats
AddTransferStats(acc, transfer) ==
    LET key == transfer.mint
        old == IF key \in DOMAIN acc THEN acc[key]
               ELSE [totalVolume |-> 0, transferCount |-> 0, uniqueWallets |-> <<>>,
                     averageAmount |-> Zero, decimals |-> transfer.decimals]
        totalVolume == old.totalVolume + Abs(transfer.amount)
        transferCount == old.transferCount + 1
    IN  Put(acc, key,
            [totalVolume |-> totalVolume,
             transferCount |-> transferCount,
             uniqueWallets |-> Unique(Append(old.uniqueWallets, transfer.owner)),
             averageAmount |-> Quotient(totalVolume, transferCount),
             decimals |-> old.decimals])

getTokenTransferStats(s, protocol) ==
    LET txs == SelectSeq(s.data, LAMBDA tx : HasCountedTransfers(tx, protocol))
    IN  Reduce(LAMBDA acc, tx : Reduce(AddTransferStats, tx.tokenTransfers, acc), txs, EmptyObject)

\* the argument of one callback invocation
Alert(tx, totalValue) ==
    [transactionId |-> tx.transactionId,
     timestamp |-> tx.timestamp,
     value |-> totalValue,
     protocol |-> tx.protocol,
     type |-> tx.type]

\* the test with > in place of >=
ExceedsThreshold(totalValue, threshold) == totalValue > threshold

\* totalValue >= threshold
ReachesThreshold(totalValue, threshold) == totalValue >= threshold

\* the callback invocations alertOnLargeTransactions makes, in the order it makes them
alertOnLargeTransactions(s, threshold) ==
    Reduce(LAMBDA made, tx :
               LET totalValue == TransferVolume(tx)
               IN  IF ReachesThreshold(totalValue, threshold)
                   THEN Append(made, Alert(tx, totalValue))
                   ELSE made,
           s.data, <<>>)

\* the filter of getDailyStats
IsOfToday(tx, protocol, startOfDay) == tx.protocol = protocol /\ tx.timestamp >= startOfDay

\* Object.values(obj).reduce((a, b) => a + b, 0)
SumOfValues(obj) ==
    LET sum[K \in SUBSET DOMAIN obj] ==
            IF K = {} THEN 0 ELSE LET k == CHOOSE k \in K : TRUE IN obj[k] + sum[K \ {k}]
    IN  sum[DOMAIN obj]

\* startOfDay is the local midnight before the call; the date is given by that instant
getDailyStats(s, protocol, startOfDay) ==
    LET todayTxs == SelectSeq(s.data, LAMBDA tx : IsOfToday(tx, protocol, startOfDay))
        tokenVolumes == Reduce(AddTransfers, todayTxs, EmptyObject)
    IN  [date |-> startOfDay,
         transactionCount |-> Len(todayTxs),
         uniqueUsers |-> Len(Unique(Map(todayTxs, LAMBDA tx : tx.userWallet))),
         tokenVolumes |-> tokenVolumes,
         successRate |-> SuccessShare(todayTxs),
         failedTransactions |-> Len(SelectSeq(todayTxs, LAMBDA tx : ~tx.success)),
         averageTransactionSize |->
             IF Len(todayTxs) # 0 THEN Quotient(SumOfValues(tokenVolumes), Len(todayTxs))
             ELSE Zero]

\* the absolute value of the sum of all the balance changes
NetChange(tx) ==
    Abs(Reduce(LAMBDA sum, change : sum + change.balanceChange, tx.accountChanges, 0))

\* Math.abs of the sum of the negative balance changes
Fee(tx) ==
    Abs(Reduce(LAMBDA sum, change :
                   IF change.balanceChange < 0 THEN sum + change.balanceChange ELSE sum,
               tx.accountChanges, 0))

\* a value that || replaces by its right-hand side (for the strings of a record)
Falsy(v) == v \in {Undefined, Null, ""}

\* the body of the reduce of calculateProtocolFees
AddFee(acc, tx, protocol) ==
    IF ~Falsy(protocol) /\ tx.protocol # protocol THEN acc
    ELSE LET protocolName == IF Falsy(tx.protocol) THEN "unknown" ELSE tx.protocol
             old == IF protocolName \in DOMAIN acc THEN acc[protocolName]
                    ELSE [totalFees |-> 0, transactionCount |-> 0, averageFee |-> Zero,
                          feesByType |-> EmptyObject,
                          highestFee |-> [amount |-> 0, transactionId |-> Null]]
             fee == Fee(tx)
             txType == IF Falsy(tx.type) THEN "unknown" ELSE tx.type
             oldType == IF txType \in DOMAIN old.feesByType THEN old.feesByType[txType]
                        ELSE [total |-> 0, count |-> 0, average |-> Zero]
         IN  Put(acc, protocolName,
                 [totalFees |-> old.totalFees + fee,
                  transactionCount |-> old.transactionCount + 1,
                  averageFee |-> Quotient(old.totalFees + fee, old.transactionCount + 1),
                  feesByType |-> Put(old.feesByType, txType,
                                     [total |-> oldType.total + fee,
                                      count |-> oldType.count + 1,
                                      average |-> Quotient(oldType.total + fee, oldType.count + 1)]),
                  highestFee |-> IF fee > old.highestFee.amount
                                 THEN [amount |-> fee, transactionId |-> tx.transactionId]
                                 ELSE old.highestFee])

calculateProtocolFees(s, protocol) ==
    Reduce(LAMBDA acc, tx : AddFee(acc, tx, protocol), s.data, EmptyObject)

\* tx.tokenTransfers.filter((transfer) => transfer.mint === mintAddress)
TransfersOfMint(tx, mintAddress) ==
    SelectSeq(tx.tokenTransfers, LAMBDA transfer : transfer.mint = mintAddress)

\* stream.data.filter((tx) => tx.tokenTransfers.some((t) => t.mint === mintAddress))
WithMint(s, mintAddress) ==
    SelectSeq(s.data, LAMBDA tx : Len(TransfersOfMint(tx, mintAddress)) > 0)

calculateTotalValueTransferred(s, mintAddress) ==
    LET transfers == Reduce(LAMBDA all, tx : all \o TransfersOfMint(tx, mintAddress), s.data, <<>>)
        volume == Reduce(LAMBDA sum, transfer : sum + Abs(transfer.amount), transfers, 0)
        times == Map(WithMint(s, mintAddress), LAMBDA tx : tx.timestamp)
    IN  [mintAddress |-> mintAddress,
         totalTransfers |-> Len(transfers),
         totalVolume |-> volume,
         uniqueSenders |-> Len(Unique(Map(transfers, LAMBDA t : t.owner))),
         averageTransferSize |-> IF Len(transfers) # 0 THEN Quotient(volume, Len(transfers)) ELSE Zero,
         largestTransfer |-> MathMax(Map(transfers, LAMBDA t : Abs(t.amount))),
         decimals |-> IF Len(transfers) # 0 THEN transfers[1].decimals ELSE 0,
         timeStats |->
             [firstTransfer |-> IF Len(transfers) # 0 THEN <<MathMin(times)>> ELSE <<>>,
              lastTransfer |-> IF Len(transfers) # 0 THEN <<MathMax(times)>> ELSE <<>>],
         volumeByProtocol |->
             Reduce(LAMBDA acc, tx :
                        LET protocol == IF Falsy(tx.protocol) THEN "unknown" ELSE tx.protocol
                            txVolume == Reduce(LAMBDA sum, t : sum + Abs(t.amount),
                                               TransfersOfMint(tx, mintAddress), 0)
                        IN  Put(acc, protocol, GetOrZero(acc, protocol) + txVolume),
                    WithMint(s, mintAddress), EmptyObject)]

\* ------------------------------------------------ analytics: the inputs

Transfer(mint, owner, amount) == [mint |-> mint, owner |-> owner, amount |-> amount, decimals |-> 9]

Change(address, balanceChange) == [address |-> address, balanceChange |-> balanceChange]

Tx(protocol, success, timestamp, userWallet, type, tokenTransfers, accountChanges) ==
    [transactionId |-> "", protocol |-> protocol, timestamp |-> timestamp, success |-> success,
     userWallet |-> userWallet, type |-> type, tokenTransfers |-> tokenTransfers,
     accountChanges |-> accountChanges]

\* w4 occurs only as a transfer owner, w5 only as an account-change address
TxPool == {
    Tx("Jupiter", TRUE, 70, "w1", "swap", <<Transfer("SOL", "w1", -3)>>,
       <<Change("w1", -2), Change("pool", 2)>>),
    Tx("Jupiter", TRUE, 90, "w2", "swap", <<Transfer("SOL", "w2", 2), Transfer("USDC", "w4", -5)>>,
       <<Change("w2", -1), Change("w5", -4), Change("pool", 3)>>),
    Tx("Jupiter", FALSE, 90, "w3", "route", <<Transfer("SOL", "w3", 7)>>, <<>>),
    Tx("jupiter", TRUE, 40, "w1", Undefined, <<Transfer("USDC", "w1", 4)>>, <<Change("w4x", 1)>>),
    Tx("RAYDIUM", TRUE, 70, Null, "swap", <<>>, <<Change("w1", 0)>>),
    Tx(Undefined, FALSE, 100, "w2", "swap", <<Transfer("SOL", "w2", 1)>>, <<Change("w2", 6)>>) }

\* the transactionId of the record at position i is "tx<i>"
Numbered(txs) == [i \in 1..Len(txs) |-> [txs[i] EXCEPT !.transactionId = "tx" \o ToString(i)]]

DataSets == UNION {{Numbered(d) : d \in [1..n -> TxPool]} : n \in 0..MaxData}

NowValues == {100}
Limits == {<<>>, <<0>>, <<2>>, <<MaxData + 1>>}
ProtocolArguments == {"Jupiter", "jupiter", "JUPITER", "RAYDIUM"}
Timeframes == {29, 30}
WalletArguments == {"w1", "w4", "w5", "w9"}
ProtocolNames == {"Jupiter", "RAYDIUM"}
Thresholds == {4, 7}
\* the local midnights the calls of getDailyStats fall after
StartsOfDay == {70, 90}
\* Undefined: no protocol argument
FeeProtocols == {Undefined, "Jupiter", "RAYDIUM"}
\* no record of TxPool transfers BONK
MintArguments == {"SOL", "USDC", "BONK"}
\* Undefined: options without a type
UnrecognisedTypes == {Undefined, "fees"}

\* the stream argument of the analytics functions
Stream == [data |-> data]

InitQuery ==
    /\ stream = NoStream
    /\ protocolFilter = Null
    /\ transactions = <<>>
    /\ idx = 0
    /\ filtered = <<>>
    /\ pc = "none"
    /\ data \in DataSets
    /\ now \in NowValues
    /\ query = NoQuery
    /\ result = <<>>
    /\ calls = <<>>

\* stream.data with the sort of searchTransactionsByWallet applied to it
SortedInPlace(s, options) ==
    IF options.type = "walletSearch" THEN SortNewestFirst(s.data) ELSE s.data

\* stream.data after the call main(s, options): filter, flatMap, map and reduce build new
\* arrays, and the sort of searchTransactionsByWallet reorders the array filter returned
StreamDataAfter(s, options) == s.data

\* the array of the stream in place of the stream
StreamData(s) == s.data

\* default: return stream
Unrecognised(s) == s

\* main(stream, options): options.type is Undefined when absent; clock and startOfDay are
\* what Date gives to getProtocolVolume and getDailyStats
main(s, options, clock, startOfDay) ==
    CASE options.type = "all" -> getAllTransactions(s, options.limit)
      [] options.type = "byProtocol" -> getTransactionsByProtocol(s, options.protocol, options.limit)
      [] options.type = "volume" -> getProtocolVolume(s, options.protocol, options.timeframe, clock)
      [] options.type = "activeWallets" -> getActiveWallets(s, options.protocol)
      [] options.type = "transferStats" -> getTokenTransferStats(s, options.protocol)
      [] options.type = "alertLarge" -> Undefined
      [] options.type = "multiProtocolStats" -> getMultiProtocolStats(s)
      [] options.type = "dailyStats" -> getDailyStats(s, options.protocol, startOfDay)
      [] options.type = "walletSearch" -> searchTransactionsByWallet(s, options.walletAddress)
      [] options.type = "protocolFees" -> calculateProtocolFees(s, options.protocol)
      [] options.type = "valueTransferred" -> calculateTotalValueTransferred(s, options.mintAddress)
      [] OTHER -> Unrecognised(s)

\* the callback invocations the call main(s, options) makes
CallbackCalls(s, options) ==
    IF options.type = "alertLarge" THEN alertOnLargeTransactions(s, options.threshold) ELSE <<>>

\* one call main(stream, options), from its start to its return
Call(options, startOfDay) ==
    /\ query = NoQuery
    /\ query' = options
    /\ result' = main(Stream, options, now, startOfDay)
    /\ calls' = CallbackCalls(Stream, options)
    /\ data' = StreamDataAfter(Stream, options)
    /\ UNCHANGED <<now, pipelineVars>>

GetAllTransactions ==
    \E limit \in Limits : Call([type |-> "all", limit |-> limit], now)

GetTransactionsByProtocol ==
    \E protocol \in ProtocolArguments, limit \in Limits :
        Call([type |-> "byProtocol", protocol |-> protocol, limit |-> limit], now)

GetProtocolVolume ==
    \E protocol \in ProtocolArguments, timeframe \in Timeframes :
        Call([type |-> "volume", protocol |-> protocol, timeframe |-> timeframe], now)

GetActiveWallets ==
    \E protocol \in ProtocolArguments : Call([type |-> "activeWallets", protocol |-> protocol], now)

GetTokenTransferStats ==
    \E protocol \in ProtocolNames : Call([type |-> "transferStats", protocol |-> protocol], now)

AlertOnLargeTransactions ==
    \E threshold \in Thresholds :
        Call([type |-> "alertLarge", threshold |-> threshold, callback |-> "sink"], now)

GetMultiProtocolStats == Call([type |-> "multiProtocolStats"], now)

GetDailyStats ==
    \E protocol \in ProtocolNames, startOfDay \in StartsOfDay :
        Call([type |-> "dailyStats", protocol |-> protocol], startOfDay)

SearchTransactionsByWallet ==
    \E walletAddress \in WalletArguments :
        Call([type |-> "walletSearch", walletAddress |-> walletAddress], now)

CalculateProtocolFees ==
    \E protocol \in FeeProtocols : Call([type |-> "protocolFees", protocol |-> protocol], now)

CalculateTotalValueTransferred ==
    \E mintAddress \in MintArguments :
        Call([type |-> "valueTransferred", mintAddress |-> mintAddress], now)

\* default: options without a type, or with one that is no case of the switch
PassThrough ==
    \E type \in UnrecognisedTypes : Call([type |-> type, protocol |-> "Jupiter"], now)

\* the call has returned: its result is with the caller and the next call can be made
Respond ==
    /\ query # NoQuery
    /\ query' = NoQuery
    /\ result' = <<>>
    /\ calls' = <<>>
    /\ UNCHANGED <<data, now, pipelineVars>>

NextQuery ==
    \/ GetAllTransactions
    \/ GetTransactionsByProtocol
    \/ GetProtocolVolume
    \/ GetActiveWallets
    \/ GetTokenTransferStats
    \/ AlertOnLargeTransactions
    \/ GetMultiProtocolStats
    \/ GetDailyStats
    \/ SearchTransactionsByWallet
    \/ CalculateProtocolFees
    \/ CalculateTotalValueTransferred
    \/ PassThrough
    \/ Respond

SpecQuery == InitQuery /\ [][NextQuery]_vars

\* ----------------------------------------------- analytics: the claims

Positions == 1..Len(data)

RECURSIVE SetSum(_, _)
\* the sum of f over the finite set S
SetSum(S, f) == IF S = {} THEN 0 ELSE LET x == CHOOSE x \in S : TRUE IN f[x] + SetSum(S \ {x}, f)

\* C4: for a non-negative limit, getAllTransactions returns the prefix of
\* stream.data of length min(limit, |stream.data|), in original order.
C4_PrefixOfMinLength ==
    (query.type = "all" /\ query.limit # <<>>)
        => result = SubSeq(data, 1, Min(query.limit[1], Len(data)))

\* two characters that are equal or are the two cases of one letter
SameLetter(x, y) ==
    \/ x = y
    \/ \E k \in 1..26 :
          LET upper == SubSeq("ABCDEFGHIJKLMNOPQRSTUVWXYZ", k, k)
              lower == SubSeq("abcdefghijklmnopqrstuvwxyz", k, k)
          IN  {x, y} = {upper, lower}

\* two strings that differ at most in letter case
SameIgnoringCase(a, b) ==
    /\ Len(a) = Len(b)
    /\ \A i \in 1..Len(a) : SameLetter(SubSeq(a, i, i), SubSeq(b, i, i))

\* C5: getTransactionsByProtocol returns the same result for every protocol
\* argument that differs from the given one only in letter case, and without a
\* limit that result is the transactions whose protocol equals the argument
\* ignoring case, in original order.
C5_CaseInsensitive ==
    query.type = "byProtocol" =>
        /\ \A other \in ProtocolArguments :
              SameIgnoringCase(other, query.protocol)
                  => getTransactionsByProtocol(Stream, other, query.limit) = result
        /\ query.limit = <<>> =>
              result = SelectSeq(data, LAMBDA tx :
                           tx.protocol # Undefined /\ SameIgnoringCase(tx.protocol, query.protocol))

\* a call without limit returned records whose protocol is spelled in two cases,
\* neither of them the argument's, and left another protocol's record out
C5_Witness ==
    /\ query.type = "byProtocol"
    /\ query.limit = <<>>
    /\ \E a \in 1..Len(result), b \in 1..Len(result) :
          /\ result[a].protocol # result[b].protocol
          /\ result[a].protocol # query.protocol
          /\ result[b].protocol # query.protocol
    /\ Len(result) < Len(data)

\* the positions of the transactions getProtocolVolume is to count
Counted ==
    {i \in Positions : /\ data[i].protocol = query.protocol
                       /\ data[i].success
                       /\ data[i].timestamp >= now - query.timeframe}

\* the transfers (transaction position, transfer position) of mint among the transactions at S
TransfersOf(S, mint) ==
    UNION {{<<i, j>> : j \in {j \in 1..Len(data[i].tokenTransfers) :
                                data[i].tokenTransfers[j].mint = mint}} : i \in S}

\* the sum of |amount| over a set of transfers
AbsoluteVolume(transfers) ==
    SetSum(transfers, [t \in transfers |-> Abs(data[t[1]].tokenTransfers[t[2]].amount)])

AllMints == UNION {{data[i].tokenTransfers[j].mint : j \in 1..Len(data[i].tokenTransfers)} : i \in Positions}

\* C6: getProtocolVolume counts exactly the transactions of the protocol that
\* succeeded and lie in the window: transactionCount is their number and
\* volumeByToken holds, for each mint they transfer, the sum of |amount| of
\* their transfers of that mint, and no other mint.
C6_VolumeOfWindow ==
    query.type = "volume" =>
        /\ result.transactionCount = Cardinality(Counted)
        /\ DOMAIN result.volumeByToken = {mint \in AllMints : TransfersOf(Counted, mint) # {}}
        /\ \A mint \in DOMAIN result.volumeByToken :
              result.volumeByToken[mint] = AbsoluteVolume(TransfersOf(Counted, mint))

\* a call counted a transfer of negative amount while the protocol also
\* has a failed transaction with transfers and a successful one before the window
C6_Witness ==
    /\ query.type = "volume"
    /\ result.transactionCount >= 1
    /\ \E mint \in DOMAIN result.volumeByToken : \E t \in TransfersOf(Counted, mint) :
          data[t[1]].tokenTransfers[t[2]].amount < 0
    /\ \E i \in Positions : /\ data[i].protocol = query.protocol
                            /\ ~data[i].success
                            /\ data[i].tokenTransfers # <<>>
    /\ \E i \in Positions : /\ data[i].protocol = query.protocol
                            /\ data[i].success
                            /\ data[i].timestamp < now - query.timeframe
                            /\ data[i].tokenTransfers # <<>>

\* the positions of the transactions a wallet occurs in
Selected(wallet) ==
    {i \in Positions :
        wallet \in {data[i].userWallet}
                   \cup {data[i].tokenTransfers[j].owner : j \in 1..Len(data[i].tokenTransfers)}
                   \cup {data[i].accountChanges[j].address : j \in 1..Len(data[i].accountChanges)}}

\* C7: searchTransactionsByWallet selects a transaction if and only if the
\* wallet is its userWallet, the owner of one of its tokenTransfers or the
\* address of one of its accountChanges, and transactionCount is the number
\* of selected transactions.
C7_WalletSelection ==
    query.type = "walletSearch" =>
        /\ {result.transactions[k].transactionId : k \in 1..Len(result.transactions)}
              = {data[i].transactionId : i \in Selected(query.walletAddress)}
        /\ Len(result.transactions) = Cardinality(Selected(query.walletAddress))
        /\ result.transactionCount = Cardinality(Selected(query.walletAddress))

\* a search found a wallet that is a token-transfer owner and nowhere a userWallet
\* or an account-change address
C7_Witness ==
    /\ query.type = "walletSearch"
    /\ result.transactionCount >= 1
    /\ Len(data) > result.transactionCount
    /\ \A i \in Positions :
          /\ data[i].userWallet # query.walletAddress
          /\ \A j \in 1..Len(data[i].accountChanges) :
                data[i].accountChanges[j].address # query.walletAddress

\* C8 as stated: in the transactions of searchTransactionsByWallet every entry
\* has a timestamp greater than the entry after it.
C8_StrictlyDescending ==
    query.type = "walletSearch" =>
        \A k \in 1..(Len(result.transactions) - 1) :
            result.transactions[k].timestamp > result.transactions[k + 1].timestamp

\* C8: in the transactions of searchTransactionsByWallet every entry has a
\* timestamp greater than or equal to that of the entry after it.
C8_Descending ==
    query.type = "walletSearch" =>
        \A k \in 1..(Len(result.transactions) - 1) :
            result.transactions[k].timestamp >= result.transactions[k + 1].timestamp

\* a search returned three or more transactions, two of them sharing a timestamp,
\* in an order that is not the order of stream.data
C8_Witness ==
    /\ query.type = "walletSearch"
    /\ Len(result.transactions) >= 3
    /\ \E k \in 1..(Len(result.transactions) - 1) :
          result.transactions[k].timestamp = result.transactions[k + 1].timestamp
    /\ \E k \in 1..(Len(result.transactions) - 1) :
          result.transactions[k].timestamp > result.transactions[k + 1].timestamp
    /\ result.transactions # SelectSeq(data, LAMBDA tx : tx.transactionId \in
              {result.transactions[k].transactionId : k \in 1..Len(result.transactions)})

\* the positions of the transactions of a protocol, and the failed ones among them
OfProtocol(protocol) == {i \in Positions : data[i].protocol = protocol}
FailedOfProtocol(protocol) == {i \in OfProtocol(protocol) : ~data[i].success}

\* C9: the keys of getMultiProtocolStats are the protocols of the input
\* transactions that have one; under each key transactionCount N >= 1 is the
\* number of transactions of the protocol, failedTxs F the number of those that
\* failed, and successRate = (N - F) / N * 100.
C9_MultiProtocolStats ==
    query.type = "multiProtocolStats" =>
        /\ DOMAIN result = {data[i].protocol : i \in Positions} \ {Undefined}
        /\ \A protocol \in DOMAIN result :
              LET N == Cardinality(OfProtocol(protocol))
                  F == Cardinality(FailedOfProtocol(protocol))
                  rate == result[protocol].successRate
              IN  /\ N >= 1
                  /\ result[protocol].transactionCount = N
                  /\ result[protocol].failedTxs = F
                  /\ rate.den > 0
                  /\ rate.num * N = (N - F) * 100 * rate.den

\* the statistics hold two protocols, one with failed and successful transactions,
\* over an input with a transaction without protocol
C9_Witness ==
    /\ query.type = "multiProtocolStats"
    /\ Cardinality(DOMAIN result) >= 2
    /\ \E i \in Positions : data[i].protocol = Undefined
    /\ \E protocol \in DOMAIN result :
          /\ result[protocol].failedTxs >= 1
          /\ result[protocol].failedTxs < result[protocol].transactionCount

\* the positions of the successful transactions of the protocol asked for
Active == {i \in Positions : data[i].protocol = query.protocol /\ data[i].success}

\* the first position at which a wallet is active
FirstActive(wallet) ==
    CHOOSE i \in Active : /\ data[i].userWallet = wallet
                          /\ \A j \in Active : data[j].userWallet = wallet => i <= j

\* C10: getActiveWallets returns the userWallet values of exactly the successful
\* transactions of the protocol, each once, in order of first appearance.
C10_ActiveWallets ==
    query.type = "activeWallets" =>
        /\ {result[k] : k \in 1..Len(result)} = {data[i].userWallet : i \in Active}
        /\ \A a \in 1..Len(result) : \A b \in 1..Len(result) :
              a < b => /\ result[a] # result[b]
                       /\ FirstActive(result[a]) < FirstActive(result[b])

\* the scenario: successful transactions of w1, w2, w1 and a failed one of w3 give [w1, w2]
C10_Witness ==
    /\ query.type = "activeWallets"
    /\ Len(data) = 4
    /\ \A i \in Positions : data[i].protocol = query.protocol
    /\ <<data[1].userWallet, data[2].userWallet, data[3].userWallet, data[4].userWallet>>
          = <<"w1", "w2", "w1", "w3">>
    /\ <<data[1].success, data[2].success, data[3].success, data[4].success>>
          = <<TRUE, TRUE, TRUE, FALSE>>
    /\ result = <<"w1", "w2">>

\* the transfers of the mint asked for, as (transaction, transfer) positions
MintTransfers == TransfersOf(Positions, query.mintAddress)

\* C11: calculateTotalValueTransferred over a stream with no transfer of the requested mint
\* returns largestTransfer as the defined sentinel 0 (the field is a number in the model, so
\* the other sentinel, null, is not among its values), never an infinite value; totalTransfers,
\* totalVolume and averageTransferSize are 0, firstTransfer and lastTransfer are null
C11_NoTransfersSentinel ==
    (query.type = "valueTransferred" /\ MintTransfers = {}) =>
        /\ result.largestTransfer.den # 0
        /\ result.largestTransfer = Finite(0)
        /\ result.totalTransfers = 0
        /\ result.totalVolume = 0
        /\ result.averageTransferSize = Zero
        /\ result.timeStats.firstTransfer = <<>>
        /\ result.timeStats.lastTransfer = <<>>

\* all of C11 but the value of largestTransfer
C11_RestOfEmptyAnalysis ==
    (query.type = "valueTransferred" /\ MintTransfers = {}) =>
        /\ result.totalTransfers = 0
        /\ result.totalVolume = 0
        /\ result.averageTransferSize = Zero
        /\ result.timeStats.firstTransfer = <<>>
        /\ result.timeStats.lastTransfer = <<>>

\* the eleven tags of the switch
RecognisedTypes ==
    {"all", "byProtocol", "volume", "activeWallets", "transferStats", "alertLarge",
     "multiProtocolStats", "dailyStats", "walletSearch", "protocolFees", "valueTransferred"}

\* C12: a call of the dispatcher whose options.type is absent or none of the eleven tags
\* returns the stream argument itself, and invokes nothing; a call with one of the eleven
\* tags returns what the function of that tag returns for the parameters of the options
C12_Dispatch ==
    /\ (query # NoQuery /\ query.type \notin RecognisedTypes) => (result = Stream /\ calls = <<>>)
    /\ query.type = "all" => result = getAllTransactions(Stream, query.limit)
    /\ query.type = "byProtocol" =>
           result = getTransactionsByProtocol(Stream, query.protocol, query.limit)
    /\ query.type = "volume" =>
           result = getProtocolVolume(Stream, query.protocol, query.timeframe, now)
    /\ query.type = "activeWallets" => result = getActiveWallets(Stream, query.protocol)
    /\ query.type = "transferStats" => result = getTokenTransferStats(Stream, query.protocol)
    /\ query.type = "alertLarge" =>
           (result = Undefined /\ calls = alertOnLargeTransactions(Stream, query.threshold))
    /\ query.type = "multiProtocolStats" => result = getMultiProtocolStats(Stream)
    /\ query.type = "dailyStats" => result = getDailyStats(Stream, query.protocol, result.date)
    /\ query.type = "walletSearch" =>
           result = searchTransactionsByWallet(Stream, query.walletAddress)
    /\ query.type = "protocolFees" => result = calculateProtocolFees(Stream, query.protocol)
    /\ query.type = "valueTransferred" =>
           result = calculateTotalValueTransferred(Stream, query.mintAddress)

\* a call without options.type on a stream of two or more records has returned the stream
C12_Witness ==
    /\ query # NoQuery
    /\ query.type = Undefined
    /\ Len(data) >= 2
    /\ result = Stream
    /\ result.data[2].transactionId = "tx2"

\* C13: no step of a call of the dispatcher, of any of the eleven types or of none, changes
\* stream.data: after any sequence of calls it is the same sequence of the same records
C13_StreamDataUntouched == [][data' = data]_vars

\* searchTransactionsByWallet has returned its transactions in another order than they have
\* in stream.data, and stream.data still has its records at their positions
C13_Witness ==
    /\ query.type = "walletSearch"
    /\ Len(result.transactions) >= 2
    /\ \E k \in 1..(Len(result.transactions) - 1) :
          \E i, j \in Positions :
              /\ i > j
              /\ data[i] = result.transactions[k]
              /\ data[j] = result.transactions[k + 1]
              /\ data[i].timestamp > data[j].timestamp
    /\ \A i \in Positions : data[i].transactionId = "tx" \o ToString(i)

\* the sum of |amount| over the transfers of the transaction at position i
TotalValue(i) == AbsoluteVolume({<<i, j>> : j \in 1..Len(data[i].tokenTransfers)})

\* the positions of the transactions that reach the threshold
Large == {i \in Positions : TotalValue(i) >= query.threshold}

\* C14: alertOnLargeTransactions invokes the callback once for each transaction whose sum of
\* |amount| is at least the threshold and for no other: the k-th invocation is for the k-th
\* such transaction of stream.data and carries its transactionId and that sum
C14_AlertsInOrder ==
    query.type = "alertLarge" =>
        /\ Len(calls) = Cardinality(Large)
        /\ \A k \in 1..Len(calls) :
              \E i \in Large :
                  /\ Cardinality({j \in Large : j < i}) = k - 1
                  /\ calls[k].transactionId = data[i].transactionId
                  /\ calls[k].value = TotalValue(i)

\* two invocations were made, one for a transaction just at the threshold, and a transaction
\* below the threshold stands before one at or above it
C14_Witness ==
    /\ query.type = "alertLarge"
    /\ Len(calls) >= 2
    /\ \E k \in 1..Len(calls) : calls[k].value = query.threshold
    /\ \E i, j \in Positions : i < j /\ i \notin Large /\ j \in Large

\* the positions of the transactions getDailyStats selects
Today == {i \in Positions : data[i].protocol = query.protocol /\ data[i].timestamp >= result.date}

\* rate is the percentage (|S| - failed) / |S| * 100 of the transactions at S, 0 for none
IsSuccessPercentage(rate, S) ==
    LET count == Cardinality(S)
        failed == Cardinality({i \in S : ~data[i].success})
    IN  /\ rate.den > 0
        /\ 0 <= rate.num
        /\ rate.num <= 100 * rate.den
        /\ IF count = 0 THEN rate.num = 0
           ELSE rate.num * count = (count - failed) * 100 * rate.den

\* C16: successRate of getDailyStats and of searchTransactionsByWallet is a percentage between
\* 0 and 100, (count - failed) / count * 100 over the selected transactions and 0 when none is
\* selected; in getDailyStats failedTransactions plus the number of successful selected
\* transactions is transactionCount, and averageTransactionSize is 0 when transactionCount is 0
C16_SuccessRates ==
    /\ query.type = "walletSearch" =>
           IsSuccessPercentage(result.successRate, Selected(query.walletAddress))
    /\ query.type = "dailyStats" =>
           /\ IsSuccessPercentage(result.successRate, Today)
           /\ result.transactionCount = Cardinality(Today)
           /\ result.failedTransactions + Cardinality({i \in Today : data[i].success})
                  = result.transactionCount
           /\ result.transactionCount = 0 => result.averageTransactionSize.num = 0

\* getDailyStats has selected three transactions or more, failed and successful ones among
\* them, and left one of the protocol out as older than the day
C16_Witness ==
    /\ query.type = "dailyStats"
    /\ result.transactionCount >= 3
    /\ result.failedTransactions >= 1
    /\ result.failedTransactions < result.transactionCount
    /\ result.successRate.den > 1
    /\ \E i \in Positions : data[i].protocol = query.protocol /\ i \notin Today

\* the fee of the transaction at position i: what its negative balance changes add up to,
\* without the sign
FeeOf(i) ==
    LET negative == {j \in 1..Len(data[i].accountChanges) : data[i].accountChanges[j].balanceChange < 0}
    IN  SetSum(negative, [j \in negative |-> 0 - data[i].accountChanges[j].balanceChange])

\* the key a transaction is grouped under: its protocol, "unknown" for one that has none
KeyOf(i) == IF data[i].protocol \in {Undefined, Null, ""} THEN "unknown" ELSE data[i].protocol

\* the transactions calculateProtocolFees takes in, for the protocol argument of the call
Grouped ==
    IF query.protocol = Undefined THEN Positions
    ELSE {i \in Positions : data[i].protocol = query.protocol}

\* C17: in calculateProtocolFees the fee of a transaction is the absolute value of the sum of
\* its negative balance changes alone; each key of the output has the number of that
\* protocol's transactions as transactionCount, the sum of their fees as totalFees,
\* totalFees / transactionCount as averageFee and the largest of their fees as
\* highestFee.amount; without a protocol argument every transaction is grouped under its own
\* protocol, with one only that protocol's key appears
C17_ProtocolFees ==
    query.type = "protocolFees" =>
        /\ DOMAIN result = {KeyOf(i) : i \in Grouped}
        /\ query.protocol # Undefined => DOMAIN result \subseteq {query.protocol}
        /\ \A key \in DOMAIN result :
              LET members == {i \in Grouped : KeyOf(i) = key}
                  fees == [i \in members |-> FeeOf(i)]
              IN  /\ result[key].transactionCount = Cardinality(members)
                  /\ result[key].totalFees = SetSum(members, fees)
                  /\ result[key].averageFee.den > 0
                  /\ result[key].averageFee.num * result[key].transactionCount
                         = result[key].totalFees * result[key].averageFee.den
                  /\ \E i \in members : result[key].highestFee.amount = fees[i]
                  /\ \A i \in members : result[key].highestFee.amount >= fees[i]

\* without a protocol argument two keys or more came out, one of them for transactions of
\* different fees, one of which has positive balance changes beside its negative ones
C17_Witness ==
    /\ query.type = "protocolFees"
    /\ query.protocol = Undefined
    /\ Cardinality(DOMAIN result) >= 2
    /\ \E i, j \in Positions :
          /\ KeyOf(i) = KeyOf(j)
          /\ FeeOf(i) > FeeOf(j)
          /\ FeeOf(j) > 0
          /\ \E c \in 1..Len(data[i].accountChanges) : data[i].accountChanges[c].balanceChange > 0

====
